---- MODULE Spec2Model ----
(***************************************************************************)
(* Weather dashboard (Mostafadmg/weather-app).                             *)
(*                                                                         *)
(* The repository holds two entry scripts with the same handlers:          *)
(*   "main"  : src/src/main.js  (src/unnamed/part_000 is the same code     *)
(*             with commentary)                                            *)
(*   "final" : src/unnamed/part_001 ("FINAL COMPLETE JAVASCRIPT CODE")     *)
(* The variable entry says which of the two scripts the page runs; every   *)
(* handler is modelled once per script, with the suffix _main or _final.   *)
(*                                                                         *)
(* Units: a timestamp dt is counted in hours of local time (the source's   *)
(* dt * 1000 ms), so dt \div 24 is the local calendar day and dt % 24 is   *)
(* getHours(). A raw temperature is counted in tenths of a degree Celsius  *)
(* (18.2 is 182). A displayed text is a pair <<kind, number>>.             *)
(***************************************************************************)
EXTENDS Integers, Sequences, FiniteSets, TLC

VARIABLES
    entry,              \* which entry script runs: "main" or "final"
    \* ---- user settings (main: currentUnit, currentWindUnit, current24Hour)
    currentUnit,        \* "celsius" | "fahrenheit"
    currentSpeedUnit,   \* "mph" | "kmh"
    currentTimeFormat,  \* "12" | "24"  (main: current24Hour = (format is "24"))
    localStorage,       \* [tempUnit, windUnit, timeFormat, lastCity], "null" when absent
    \* ---- weather state
    city,               \* final: the global city; main has none (cityName is a parameter)
    globalForecastData, \* the forecast kept for day selection
    calls,              \* the invocations of fetchWeather / fetchWeatherForCity so far
    loading,            \* final: the loading overlay is visible
    uncaught,           \* an exception left a handler uncaught
    \* ---- DOM: current conditions
    locationName, mainTemp, feelsLikeTemp, humidityValue, windSpeed, precipitationValue,
    \* ---- DOM: forecast
    dailyCards,         \* the [data-forecast-day] cards
    hourlyCards,        \* the [data-hourly-item] cards
    hourlyCall,         \* history: the latest updateHourlyForecast call and its selection
    \* ---- DOM: day selector of the hourly view
    selectedDay,        \* text of [data-selected-day]
    currentDayIndex,    \* main: the remembered day index
    dayOptions,         \* the [data-day-option] items: [text, hidden, active]
    dayMenuOpen,        \* the day menu has its --visible class
    settingsOpen,       \* the settings menu has its --visible class
    \* ---- search box
    inputValue,         \* locationInput.value
    userMadeSelection,  \* main: suppresses the lookup after a selection
    searchDropdown,     \* [shown, items]
    searchTimeout,      \* handle of the latest debounce timer, 0 when null
    timers,             \* pending setTimeout timers: [id, left, query, latest, restarted]
    quiet,              \* history: ms since the latest input event, capped at the delay
    lookups,            \* history: the suggestion requests sent so far
    submitted,          \* history: a search was submitted after the latest input event
    \* ---- inputs of the grouping functions
    list,               \* forecast sample list handed to the grouping functions
    buckets,            \* result of the last grouping of list
    pcG,                \* "input" | "grouped" | "rendered"
    \* ---- inputs of the conversion and formatting functions
    calcIn,             \* [kind, v]: the argument handed to a function
    calcOut,            \* the value returned by the latest application
    calcFn              \* the names of the functions applied so far, in order

settingsVars == <<currentUnit, currentSpeedUnit, currentTimeFormat, localStorage>>
fetchVars == <<city, globalForecastData, calls, loading, uncaught>>
currentVars == <<locationName, mainTemp, feelsLikeTemp, humidityValue, windSpeed,
                 precipitationValue>>
hourlyVars == <<hourlyCards, hourlyCall>>
dayVars == <<selectedDay, currentDayIndex, dayOptions, dayMenuOpen>>
searchVars == <<inputValue, userMadeSelection, searchDropdown, searchTimeout, timers,
                quiet, lookups, submitted>>
groupVars == <<list, buckets, pcG>>
calcVars == <<calcIn, calcOut, calcFn>>

vars == <<entry, settingsVars, fetchVars, currentVars, dailyCards, hourlyVars, dayVars,
          settingsOpen, searchVars, groupVars, calcVars>>

-----------------------------------------------------------------------------
(* Bounds of the model *)

MaxLen == 3             \* longest sample list drawn for the grouping functions

-----------------------------------------------------------------------------
(* Program constants *)

NumDailyCards == 7      \* [data-forecast-day] cards; daysArray.slice(0, 7)

Builds == {"main", "final"}

-----------------------------------------------------------------------------
(* Texts written to the DOM *)

Deg(n) == <<"deg", n>>          \* `${n}°`
DashDeg == <<"--deg", 0>>       \* "--°"
NAText == <<"N/A", 0>>          \* "N/A"
Html == <<"html", 0>>           \* static text of the page's markup, never written by a script

-----------------------------------------------------------------------------
(* Numeric helpers *)

\* Math.round on a value given in tenths: nearest integer, halves towards +infinity
Round10(t) == (t + 5) \div 10

\* Math.max(...temps) / Math.min(...temps) over a non-empty sequence
MaxOf(s) == CHOOSE x \in {s[i] : i \in DOMAIN s} : \A j \in DOMAIN s : s[j] <= x
MinOf(s) == CHOOSE x \in {s[i] : i \in DOMAIN s} : \A j \in DOMAIN s : s[j] >= x

\* celsiusToFahrenheit: Math.round(c * 9 / 5 + 32), c given in tenths
celsiusToFahrenheit_truncated(t) == (9 * t + 1600) \div 50
celsiusToFahrenheit(t) == (9 * t + 1625) \div 50

weatherIconMap ==
    [c \in {"01d", "01n", "02d", "02n", "03d", "03n", "04d", "04n", "09d", "09n",
            "10d", "10n", "11d", "11n", "13d", "13n", "50d", "50n"} |->
        CASE c = "01d" -> "iconSunny"
          [] c = "01n" -> "iconFullMoon"
          [] c \in {"02d", "02n"} -> "iconPartlyCloudy"
          [] c \in {"03d", "03n"} -> "iconCloudy"
          [] c \in {"04d", "04n"} -> "iconOvercast"
          [] c \in {"09d", "09n"} -> "iconDrizzle"
          [] c \in {"10d", "10n"} -> "iconRain"
          [] c \in {"11d", "11n"} -> "iconStorm"
          [] c \in {"13d", "13n"} -> "iconSnow"
          [] OTHER -> "iconFog"]

-----------------------------------------------------------------------------
(* A JavaScript object with string keys that are not array indices: its    *)
(* entries in insertion order, each <<key, value>> a record.               *)

HasKey(obj, key) == \E j \in DOMAIN obj : obj[j].key = key
Get(obj, key) == (CHOOSE j \in DOMAIN obj : obj[j].key = key)

\* if (!obj[key]) obj[key] = []; obj[key].push(item)
pushItem_overwrite(obj, key, item) ==
    IF HasKey(obj, key)
    THEN [j \in DOMAIN obj |->
            IF obj[j].key = key THEN [obj[j] EXCEPT !.items = <<item>>] ELSE obj[j]]
    ELSE Append(obj, [key |-> key, items |-> <<item>>])
pushItem(obj, key, item) ==
    IF HasKey(obj, key)
    THEN [j \in DOMAIN obj |->
            IF obj[j].key = key THEN [obj[j] EXCEPT !.items = Append(@, item)] ELSE obj[j]]
    ELSE Append(obj, [key |-> key, items |-> <<item>>])

\* ascending sort of a sequence of distinct numbers (Array.prototype.sort((a, b) => a - b))
RECURSIVE SortAsc(_)
SortAsc(s) ==
    IF s = <<>> THEN <<>>
    ELSE LET m == MinOf(s)
             rest == SelectSeq(s, LAMBDA x : x # m)
         IN <<m>> \o SortAsc(rest)

-----------------------------------------------------------------------------
(* Grouping by local calendar day.  An item pushed to a bucket is a        *)
(* reference to an element of data.list: it is modelled by its position.   *)

\* final: new Date(item.dt * 1000).toLocaleDateString()
dateKey_final(dt) == dt \div 24
\* main: dateAtMidnight.setHours(0, 0, 0, 0); dateAtMidnight.getTime()
dateKey_main(dt) == (dt \div 24) * 24

RECURSIVE groupLoop_final(_, _, _)
groupLoop_final(l, i, dailyData) ==
    IF i > Len(l) THEN dailyData
    ELSE groupLoop_final(l, i + 1, pushItem(dailyData, dateKey_final(l[i].dt), i))

\* final: groupForecastByDay(data) returns Object.values(dailyData)
groupForecastByDay(l) ==
    LET dailyData == groupLoop_final(l, 1, <<>>)
    IN [j \in DOMAIN dailyData |-> dailyData[j].items]

RECURSIVE groupLoop_main(_, _, _)
groupLoop_main(l, i, dailyForecasts) ==
    IF i > Len(l) THEN dailyForecasts
    ELSE groupLoop_main(l, i + 1, pushItem(dailyForecasts, dateKey_main(l[i].dt), i))

\* main: the dailyForecasts object of updateHourlyForecast
dailyForecasts_main(l) == groupLoop_main(l, 1, <<>>)

\* main: Object.keys(dailyForecasts).map(parseInt).sort((a, b) => a - b)
sortedDays_unsorted(l) ==
    LET d == dailyForecasts_main(l) IN [j \in DOMAIN d |-> d[j].key]
sortedDays(l) ==
    LET d == dailyForecasts_main(l) IN SortAsc([j \in DOMAIN d |-> d[j].key])

\* main: the day buckets in the order dayIndex addresses them,
\* dailyForecasts[sortedDays[dayIndex]]
dayBuckets_main(l) ==
    LET d == dailyForecasts_main(l)
        keys == sortedDays(l)
    IN [j \in DOMAIN keys |-> d[Get(d, keys[j])].items]

dayBuckets(e, l) == IF e = "main" THEN dayBuckets_main(l) ELSE groupForecastByDay(l)

-----------------------------------------------------------------------------
(* Day summary *)

RECURSIVE countLoop(_, _, _)
\* icons.forEach((icon) => counts[icon] = (counts[icon] || 0) + 1)
countLoop(icons, i, counts) ==
    IF i > Len(icons) THEN counts
    ELSE countLoop(icons, i + 1,
            IF HasKey(counts, icons[i])
            THEN [j \in DOMAIN counts |->
                    IF counts[j].key = icons[i]
                    THEN [counts[j] EXCEPT !.n = @ + 1] ELSE counts[j]]
            ELSE Append(counts, [key |-> icons[i], n |-> 1]))

RECURSIVE pickLoop(_, _, _, _)
\* for (let icon in counts) if (counts[icon] > highestCount) { ... }
pickLoop(counts, j, mostCommon, highestCount) ==
    IF j > Len(counts) THEN mostCommon
    ELSE IF counts[j].n > highestCount
         THEN pickLoop(counts, j + 1, counts[j].key, counts[j].n)
         ELSE pickLoop(counts, j + 1, mostCommon, highestCount)

\* main: getMostCommonIcon(icons), icons non-empty
getMostCommonIcon(icons) == pickLoop(countLoop(icons, 1, <<>>), 1, icons[1], 0)

tempsOf(l, items) == [k \in DOMAIN items |-> l[items[k]].temp]
iconsOf(l, items) == [k \in DOMAIN items |-> l[items[k]].icon]

\* formatDayName / toLocaleDateString("en-US", {weekday: "short"}) of a date
dayName(dt) == <<"weekday", (dt \div 24) % 7>>

\* main: Math.round(Math.max(...dayData.temps)), Math.round(Math.min(...dayData.temps))
maxTemp_minOfBucket(temps) == Round10(MinOf(temps))
maxTemp_main(temps) == Round10(MaxOf(temps))
minTemp_main(temps) == Round10(MinOf(temps))

\* main: updateDailyForecast(forecastData); cards beyond the days found are not touched
updateDailyForecast_main(l, cards) ==
    LET days == dayBuckets_main(l)
    IN [i \in DOMAIN cards |->
          IF i <= Len(days) /\ i <= 7
          THEN LET items == days[i]
               IN [name |-> dayName(l[items[1]].dt),
                   icon |-> weatherIconMap[getMostCommonIcon(iconsOf(l, items))],
                   max  |-> Deg(maxTemp_main(tempsOf(l, items))),
                   min  |-> Deg(minTemp_main(tempsOf(l, items)))]
          ELSE cards[i]]

\* final: the rounded extremes of a bucket, converted when Fahrenheit is selected
maxTemp_final(temps, unit) ==
    IF unit = "fahrenheit" THEN celsiusToFahrenheit(Round10(MaxOf(temps)) * 10)
    ELSE Round10(MaxOf(temps))
minTemp_final(temps, unit) ==
    IF unit = "fahrenheit" THEN celsiusToFahrenheit(Round10(MinOf(temps)) * 10)
    ELSE Round10(MinOf(temps))

\* final: updateDailyForecast(data)
updateDailyForecast_final(l, unit, cards) ==
    LET daysArray == groupForecastByDay(l)
    IN [i \in DOMAIN cards |->
          IF i <= Len(daysArray) /\ Len(daysArray[i]) > 0
          THEN LET dayItems == daysArray[i]
               IN [name |-> dayName(l[dayItems[1]].dt),
                   icon |-> weatherIconMap[l[dayItems[1]].icon],
                   max  |-> Deg(maxTemp_final(tempsOf(l, dayItems), unit)),
                   min  |-> Deg(minTemp_final(tempsOf(l, dayItems), unit))]
          ELSE [name |-> NAText, icon |-> "iconSunny", max |-> NAText, min |-> NAText]]

updateDailyForecast(e, l, unit, cards) ==
    IF e = "main" THEN updateDailyForecast_main(l, cards)
    ELSE updateDailyForecast_final(l, unit, cards)

-----------------------------------------------------------------------------
(* Time of day and wind speed *)

\* A time text is the sequence of its characters.
Digit == <<"0", "1", "2", "3", "4", "5", "6", "7", "8", "9">>
\* n.toString() for 0 <= n < 100
toString(n) ==
    IF n < 10 THEN <<Digit[n + 1]>> ELSE <<Digit[(n \div 10) + 1], Digit[(n % 10) + 1]>>
\* s.padStart(2, "0")
padStart_none(s) == s
padStart(s) == IF Len(s) < 2 THEN <<"0">> \o s ELSE s
\* parseInt of a run of one or two digits
parseInt(s) ==
    LET value(ch) == CHOOSE d \in 0..9 : Digit[d + 1] = ch
    IN IF Len(s) = 1 THEN value(s[1]) ELSE 10 * value(s[1]) + value(s[2])

\* formatTime: hours is date.getHours()
formatTime(hours, format) ==
    IF format = "24" THEN padStart(toString(hours)) \o <<":", "0", "0">>
    ELSE toString(IF hours % 12 = 0 THEN 12 ELSE hours % 12) \o <<" ">>
            \o (IF hours >= 12 THEN <<"P", "M">> ELSE <<"A", "M">>)

\* Math.round(mps * 2.237) and Math.round(mps * 3.6), mps given in tenths
mpsToMph(w) == (w * 2237 + 5000) \div 10000
mpsToKmh(w) == (w * 36 + 50) \div 100
\* final: Math.round(speed * 1.609)
mphToKmh(v) == (v * 1609 + 500) \div 1000

\* fahrenheitToCelsius(f) = Math.round(((f - 32) * 5) / 9), f in whole degrees (it is
\* only ever handed a number read back from a temperature text)
fahrenheitToCelsius(f) == (10 * (f - 32) + 9) \div 18
\* final: kmhToMph(speed) = Math.round(speed / 1.609)
kmhToMph(v) == (2000 * v + 1609) \div 3218

\* extractTemperature(text): the first integer of the text, null when there is none;
\* the temperature texts with a number are the "<n>deg" ones
NoNumber == <<"null", 0>>
extractTemperature(text) == IF text[1] = "deg" THEN <<"num", text[2]>> ELSE NoNumber
\* extractWindSpeed(text): the first run of digits of the text
extractWindSpeed(text) ==
    IF text[1] \in {"mph", "kmh", "km/h"} THEN <<"num", text[2]>> ELSE NoNumber

\* the body of convertAllTemperatures' loop for one element
convertTemp_sameNumber(text, toUnit) == text
convertTemp(text, toUnit) ==
    IF extractTemperature(text) = NoNumber THEN text
    ELSE IF toUnit = "fahrenheit" THEN Deg(celsiusToFahrenheit(10 * text[2]))
    ELSE Deg(fahrenheitToCelsius(text[2]))
convertDailyCards(toUnit, cards) ==
    [i \in DOMAIN cards |-> [cards[i] EXCEPT !.max = convertTemp(@, toUnit),
                                             !.min = convertTemp(@, toUnit)]]
convertHourlyCards(toUnit, cards) ==
    [i \in DOMAIN cards |-> [cards[i] EXCEPT !.temp = convertTemp(@, toUnit)]]

\* final: convertSpeedUnit(), run after currentSpeedUnit has been set to unit
convertSpeedUnit(text, unit) ==
    IF extractWindSpeed(text) = NoNumber THEN text
    ELSE IF unit = "kmh" THEN <<"km/h", mphToKmh(text[2])>>
    ELSE <<"mph", kmhToMph(text[2])>>
\* main: the conversion inside the wind option listener
convertWind_main(text, unit) ==
    IF extractWindSpeed(text) = NoNumber THEN text
    ELSE <<unit, IF unit = "mph" THEN text[2] ELSE mphToKmh(text[2])>>

-----------------------------------------------------------------------------
(* Hourly view *)

NumHourlyCards == 8     \* [data-hourly-item] cards; selectedDayForecasts.slice(0, 8)

Shown(card) == card.display # "none"

\* main: list.slice(0, 8) and selectedDayForecasts.slice(0, 8)
FirstEight(s) == SubSeq(s, 1, IF Len(s) < 8 THEN Len(s) ELSE 8)

\* main: dailyForecasts[sortedDays[dayIndex]] || forecastData.list.slice(0, 8)
selectedDayForecasts_main(l, dayIndex) ==
    LET days == dayBuckets_main(l)
    IN IF dayIndex + 1 \in DOMAIN days THEN days[dayIndex + 1]
       ELSE FirstEight([i \in 1..Len(l) |-> i])

\* main: const hourlyData = selectedDayForecasts.slice(0, 8)
hourlyData_main(l, dayIndex) == FirstEight(selectedDayForecasts_main(l, dayIndex))

\* main: hourlyData.forEach writes the card of each sample; no card is hidden or blanked
updateHourlyForecast_main(l, dayIndex, format, cards) ==
    LET hourlyData == hourlyData_main(l, dayIndex)
    IN [index \in DOMAIN cards |->
          IF index <= Len(hourlyData)
          THEN LET forecast == l[hourlyData[index]]
               IN [cards[index] EXCEPT
                      !.time = formatTime(forecast.dt % 24, format),
                      !.temp = Deg(Round10(forecast.temp)),
                      !.icon = weatherIconMap[forecast.icon]]
          ELSE cards[index]]

\* final: the temperature text of an hourly card
hourlyTemp_final(t, unit) ==
    IF unit = "fahrenheit" THEN celsiusToFahrenheit(Round10(t) * 10) ELSE Round10(t)

\* final: what a card without a forecast becomes (card.style.display = "none")
hideCard(card) == [card EXCEPT !.display = "none"]

\* final: dayForecasts[index] for the cards there are; daysArray[dayIndex] || []
hourlyData_final(l, dayIndex) ==
    LET daysArray == groupForecastByDay(l)
    IN IF dayIndex + 1 \in DOMAIN daysArray
       THEN SubSeq(daysArray[dayIndex + 1], 1,
                   IF Len(daysArray[dayIndex + 1]) < NumHourlyCards
                   THEN Len(daysArray[dayIndex + 1]) ELSE NumHourlyCards)
       ELSE <<>>

\* final: hourlyCards.forEach shows the card of each sample and hides every other card
updateHourlyForecast_final(l, dayIndex, unit, format, cards) ==
    LET daysArray == groupForecastByDay(l)
        hasDay == dayIndex + 1 \in DOMAIN daysArray
    IN [index \in DOMAIN cards |->
          IF hasDay /\ index \in DOMAIN daysArray[dayIndex + 1]
          THEN LET forecast == l[daysArray[dayIndex + 1][index]]
               IN [display |-> "flex",
                   time |-> formatTime(forecast.dt % 24, format),
                   temp |-> Deg(hourlyTemp_final(forecast.temp, unit)),
                   icon |-> weatherIconMap[forecast.icon]]
          ELSE hideCard(cards[index])]

\* history: the call updateHourlyForecast(l, dayIndex) and the samples it selected
HourlyCalled(e, l, dayIndex) ==
    [called |-> TRUE, list |-> l, dayIndex |-> dayIndex,
     hourlyData |-> IF e = "main" THEN hourlyData_main(l, dayIndex)
                    ELSE hourlyData_final(l, dayIndex)]

\* final: convertAllTimes rewrites the text of every [data-hourly-time]
IsDigit(ch) == \E d \in 0..9 : Digit[d + 1] = ch
\* the text matches /(\d{1,2})\s*(AM|PM)/: one or two digits, a space, AM or PM
Is12hText(text) ==
    /\ Len(text) \in {4, 5}
    /\ \A k \in 1..(Len(text) - 3) : IsDigit(text[k])
    /\ text[Len(text) - 2] = " "
    /\ text[Len(text) - 1] \in {"A", "P"}
    /\ text[Len(text)] = "M"
\* the text matches /^\d{2}:00$/
Is24hText(text) ==
    /\ Len(text) = 5
    /\ IsDigit(text[1]) /\ IsDigit(text[2])
    /\ SubSeq(text, 3, 5) = <<":", "0", "0">>
convertTime(text, format) ==
    IF text = Html THEN text
    ELSE IF format = "24" /\ Is12hText(text)
    THEN LET hours == parseInt(SubSeq(text, 1, Len(text) - 3))
             period == text[Len(text) - 1]
         IN padStart(toString(IF period = "P" /\ hours # 12 THEN hours + 12
                              ELSE IF period = "A" /\ hours = 12 THEN 0 ELSE hours))
               \o <<":", "0", "0">>
    ELSE IF format = "12" /\ Is24hText(text)
    THEN LET hours == parseInt(SubSeq(text, 1, 2))
         IN IF hours = 0 THEN <<"1", "2", " ", "A", "M">>
            ELSE IF hours = 12 THEN <<"1", "2", " ", "P", "M">>
            ELSE IF hours > 12 THEN toString(hours - 12) \o <<" ", "P", "M">>
            ELSE toString(hours) \o <<" ", "A", "M">>
    ELSE text
convertAllTimes(format, cards) ==
    [i \in DOMAIN cards |-> [cards[i] EXCEPT !.time = convertTime(@, format)]]

-----------------------------------------------------------------------------
(* Current conditions *)

\* main: updateCurrentWeather(data); temperatures are written in Celsius
updateCurrentWeather_main(data, speedUnit) ==
    [locationName |-> <<"location", data.name>>,
     mainTemp |-> Deg(Round10(data.temp)),
     feelsLikeTemp |-> Deg(Round10(data.feels_like)),
     humidityValue |-> <<"%", data.humidity>>,
     windSpeed |-> IF speedUnit = "mph" THEN <<"mph", mpsToMph(data.wind)>>
                   ELSE <<speedUnit, mpsToKmh(data.wind)>>,
     precipitationValue |-> <<"mm", data.rain>>]

\* final: updateCurrentWeather(data)
updateCurrentWeather_final(data, unit, speedUnit) ==
    [locationName |-> <<"location", data.name>>,
     mainTemp |-> Deg(IF unit = "fahrenheit" THEN celsiusToFahrenheit(data.temp)
                      ELSE Round10(data.temp)),
     feelsLikeTemp |-> Deg(IF unit = "fahrenheit" THEN celsiusToFahrenheit(data.feels_like)
                           ELSE Round10(data.feels_like)),
     humidityValue |-> <<"%", data.humidity>>,
     windSpeed |-> IF speedUnit = "kmh" THEN <<"km/h", mphToKmh(mpsToMph(data.wind))>>
                   ELSE <<"mph", mpsToMph(data.wind)>>,
     precipitationValue |-> <<"mm", data.rain>>]

\* the catch block of fetchWeatherForCity / fetchWeather
errorState_keepsNumbers(name, old) ==
    [old EXCEPT !.locationName = <<"could not find", name>>]
errorState(name, old) ==
    [locationName |-> <<"could not find", name>>,
     mainTemp |-> DashDeg,
     feelsLikeTemp |-> DashDeg,
     humidityValue |-> <<"--%", 0>>,
     windSpeed |-> <<"-- mph", 0>>,
     precipitationValue |-> <<"-- mm", 0>>]

\* the current-conditions fields as one record
currentFields ==
    [locationName |-> locationName, mainTemp |-> mainTemp, feelsLikeTemp |-> feelsLikeTemp,
     humidityValue |-> humidityValue, windSpeed |-> windSpeed,
     precipitationValue |-> precipitationValue]
SetCurrentFields(f) ==
    /\ locationName' = f.locationName
    /\ mainTemp' = f.mainTemp
    /\ feelsLikeTemp' = f.feelsLikeTemp
    /\ humidityValue' = f.humidityValue
    /\ windSpeed' = f.windSpeed
    /\ precipitationValue' = f.precipitationValue

-----------------------------------------------------------------------------
(* Day selector *)

NumDayOptions == 7      \* [data-day-option="0"] .. [data-day-option="6"]

\* the label of the day k days after today: "Today", "Tomorrow", then the weekday
DayLabel(k) == <<"day+", k>>

\* main: populateDayDropdown(forecastData); today is day 0 of the model's clock
populateDayDropdown(l, options) ==
    LET daysArray == sortedDays(l)
    IN [o \in DOMAIN options |->
          IF o = 1
          THEN [text |-> IF 1 \in DOMAIN daysArray THEN DayLabel(daysArray[1] \div 24)
                         ELSE <<"", 0>>,
                hidden |-> options[1].hidden \/ ~(1 \in DOMAIN daysArray),
                active |-> TRUE]
          ELSE IF o \in DOMAIN daysArray
          THEN [options[o] EXCEPT !.text = DayLabel(daysArray[o] \div 24)]
          ELSE [options[o] EXCEPT !.text = <<"", 0>>, !.hidden = TRUE]]

\* final: updateDaySelectorText() at start-up
updateDaySelectorText(options) ==
    [o \in DOMAIN options |-> [options[o] EXCEPT !.text = DayLabel(o - 1)]]

-----------------------------------------------------------------------------
(* The weather service: what a successful call returns for each city *)

Cities == {"Cardiff", "London"}

\* GET /weather?q=city : name, main.temp, main.feels_like, main.humidity, wind.speed, rain["1h"]
CurrentOf(c) ==
    IF c = "Cardiff"
    THEN [name |-> "Cardiff", temp |-> 182, feels_like |-> 175, humidity |-> 80,
          wind |-> 53, rain |-> 0]
    ELSE [name |-> "London", temp |-> -25, feels_like |-> -61, humidity |-> 65,
          wind |-> 100, rain |-> 12]

\* GET /forecast?q=city : list of {dt, main.temp, weather[0].icon}
\* Cardiff: day 0 has 2 samples, day 1 has 3, day 2 has 1
CardiffHours == <<18, 21, 24, 27, 30, 48>>
\* London: day 0 has 9 samples, day 1 has 1
LondonHours == <<0, 3, 6, 9, 12, 15, 18, 21, 22, 24>>
ForecastList(c) ==
    IF c = "Cardiff"
    THEN [i \in DOMAIN CardiffHours |->
            [dt |-> CardiffHours[i], temp |-> 50 + 13 * i,
             icon |-> IF i % 2 = 0 THEN "10d" ELSE "01d"]]
    ELSE [i \in DOMAIN LondonHours |->
            [dt |-> LondonHours[i], temp |-> 0 - (5 + 10 * i), icon |-> "13n"]]

NullData == [kind |-> "null", city |-> "", list |-> <<>>]
\* the JSON body of a non-success answer, {cod, message}: it has no list
ErrorBody == [kind |-> "error", city |-> "", list |-> <<>>]
ForecastOf(c) == [kind |-> "forecast", city |-> c, list |-> ForecastList(c)]

\* how a call to the weather service can end
CurrentOutcomes == {"ok", "status", "transport"}
\* "status": non-success with the service's JSON error body; "badbody": non-success
\* whose body is not JSON
ForecastOutcomes == {"ok", "status", "badbody", "transport"}

-----------------------------------------------------------------------------
(* The search box *)

InputValues == {"", " ", "L", "Cardiff", "London"}
\* String.prototype.trim
Trim_keepsSpaces(v) == v
Trim(v) == IF v = " " THEN "" ELSE v
\* query.length < 2
IsShort(q) == q \in {"", " ", "L"}

DebounceMs == 300       \* setTimeout(..., 300)

NoTimer == 0
\* handles are modelled up to renaming: a new timer takes the least handle not pending
NewHandle(ts) == CHOOSE h \in 1..(Cardinality(ts) + 1) : \A t \in ts : t.id # h

\* clearTimeout(handle)
clearTimeout(ts, handle) == {t \in ts : t.id # handle}

\* the timer with this handle has not fired and has not been cleared
Pending(ts, handle) == \E t \in ts : t.id = handle

\* setTimeout(() => ..., 300) in the input listener; main's closure holds the query,
\* final's reads the box when it runs.  latest: no input event came after the one
\* that set the timer; restarted: it replaced a pending timer less than the delay
\* after the previous input event
NewTimer(h, v, replaces) ==
    [id |-> h, left |-> DebounceMs, latest |-> TRUE, restarted |-> replaces,
     query |-> IF entry = "main" THEN Trim(v) ELSE ""]

HiddenDropdown == [shown |-> FALSE, items |-> searchDropdown.items]
ClearedDropdown == [shown |-> FALSE, items |-> <<>>]

-----------------------------------------------------------------------------
(* Start-up: the state once the entry script has run *)

MaxCalls == 2           \* weather fetches issued, the one at start-up included

\* what the browser's storage holds at start-up: nothing (a first visit), or the
\* settings and the city of an earlier visit
StoredSettings ==
    {[tempUnit |-> "null", windUnit |-> "null", timeFormat |-> "null", lastCity |-> "null"],
     [tempUnit |-> "fahrenheit", windUnit |-> "kmh", timeFormat |-> "12",
      lastCity |-> "London"]}

OrDefault(stored, default) == IF stored = "null" THEN default ELSE stored

HtmlCard == [name |-> Html, icon |-> "html", max |-> Html, min |-> Html]
HtmlHourly == [display |-> "css", time |-> Html, temp |-> Html, icon |-> "html"]
HtmlOption == [text |-> Html, hidden |-> FALSE, active |-> FALSE]

NewCall(c) == [pc |-> "current", city |-> c, fcCity |-> ""]

InitCommon ==
    /\ entry \in Builds
    /\ localStorage \in StoredSettings
    /\ currentUnit = OrDefault(localStorage.tempUnit, "celsius")
    /\ currentSpeedUnit = OrDefault(localStorage.windUnit, "mph")
    /\ currentTimeFormat = OrDefault(localStorage.timeFormat, "12")
    /\ city = IF entry = "final" THEN OrDefault(localStorage.lastCity, "Cardiff") ELSE ""
    /\ globalForecastData = NullData
    /\ uncaught = FALSE
    /\ locationName = Html /\ mainTemp = Html /\ feelsLikeTemp = Html
    /\ humidityValue = Html /\ windSpeed = Html /\ precipitationValue = Html
    /\ dailyCards = [i \in 1..NumDailyCards |-> HtmlCard]
    /\ hourlyCards = [i \in 1..NumHourlyCards |-> HtmlHourly]
    /\ hourlyCall = [called |-> FALSE, list |-> <<>>, dayIndex |-> 0, hourlyData |-> <<>>]
    /\ selectedDay = Html
    /\ currentDayIndex = 0
    /\ dayOptions = IF entry = "final"
                    THEN updateDaySelectorText([o \in 1..NumDayOptions |-> HtmlOption])
                    ELSE [o \in 1..NumDayOptions |-> HtmlOption]
    /\ dayMenuOpen = FALSE
    /\ settingsOpen = FALSE
    /\ inputValue = ""
    /\ userMadeSelection = FALSE
    /\ searchDropdown = [shown |-> FALSE, items |-> <<>>]
    /\ searchTimeout = NoTimer
    /\ timers = {}
    /\ quiet = DebounceMs
    /\ lookups = <<>>
    /\ submitted = FALSE
    /\ list = <<>>
    /\ buckets = <<>>

\* no function is being applied on its own
CalcIdle ==
    /\ calcIn = [kind |-> "none", v |-> 0]
    /\ calcOut = 0
    /\ calcFn = <<>>

\* the last statement of both scripts fetches the weather of the stored city
Init ==
    /\ InitCommon
    /\ calls = <<NewCall(OrDefault(localStorage.lastCity, "Cardiff"))>>
    /\ loading = (entry = "final")
    /\ pcG = "off"
    /\ CalcIdle

-----------------------------------------------------------------------------
(* fetchWeatherForCity(cityName) (main) and fetchWeather() (final) *)

\* the call is made: the request for the current conditions leaves
StartFetch(c) ==
    /\ calls' = Append(calls, NewCall(c))
    /\ loading' = IF entry = "final" THEN TRUE ELSE loading

\* the catch block, and final's finally
Fail(id, name) ==
    /\ SetCurrentFields(errorState(name, currentFields))
    /\ calls' = [calls EXCEPT ![id].pc = "failed"]
    /\ loading' = IF entry = "final" THEN FALSE ELSE loading

\* main: the answer to the current-conditions request arrives
CurrentResponse_main(id, outcome) ==
    /\ entry = "main"
    /\ calls[id].pc = "current"
    /\ IF outcome = "ok"
       THEN /\ SetCurrentFields(updateCurrentWeather_main(CurrentOf(calls[id].city),
                                                          currentSpeedUnit))
            /\ calls' = [calls EXCEPT ![id].pc = "forecast", ![id].fcCity = calls[id].city]
            /\ UNCHANGED loading
       ELSE Fail(id, calls[id].city)
    /\ UNCHANGED <<entry, settingsVars, city, globalForecastData, uncaught, dailyCards,
                   hourlyVars, dayVars, settingsOpen, searchVars, groupVars, calcVars>>

\* main: what the success path writes once the forecast is in
\* (ForecastDone_onlyLatest: the same, with a late answer of a superseded call dropped)
ForecastDone_onlyLatest(id) ==
    LET l == ForecastList(calls[id].fcCity)
    IN /\ calls' = [calls EXCEPT ![id].pc = "done"]
       /\ IF id = Len(calls)
          THEN /\ globalForecastData' = ForecastOf(calls[id].fcCity)
               /\ hourlyCards' = updateHourlyForecast_main(l, 0, currentTimeFormat, hourlyCards)
               /\ hourlyCall' = HourlyCalled(entry, l, 0)
               /\ dailyCards' = updateDailyForecast_main(l, dailyCards)
               /\ dayOptions' = populateDayDropdown(l, dayOptions)
               /\ selectedDay' = DayLabel(0)
               /\ localStorage' = [localStorage EXCEPT !.lastCity = calls[id].city]
          ELSE UNCHANGED <<globalForecastData, hourlyCards, hourlyCall, dailyCards,
                           dayOptions, selectedDay, localStorage>>
ForecastDone_main(id) ==
    LET l == ForecastList(calls[id].fcCity)
    IN /\ globalForecastData' = ForecastOf(calls[id].fcCity)
       /\ hourlyCards' = updateHourlyForecast_main(l, 0, currentTimeFormat, hourlyCards)
       /\ hourlyCall' = HourlyCalled(entry, l, 0)
       /\ dailyCards' = updateDailyForecast_main(l, dailyCards)
       /\ dayOptions' = populateDayDropdown(l, dayOptions)
       /\ selectedDay' = DayLabel(0)
       /\ localStorage' = [localStorage EXCEPT !.lastCity = calls[id].city]
       /\ calls' = [calls EXCEPT ![id].pc = "done"]

\* main: the answer to the forecast request arrives
ForecastResponse_main(id, outcome) ==
    /\ entry = "main"
    /\ calls[id].pc = "forecast"
    /\ IF outcome = "ok"
       THEN /\ ForecastDone_main(id)
            /\ UNCHANGED <<currentVars, loading>>
       ELSE /\ Fail(id, calls[id].city)
            /\ UNCHANGED <<globalForecastData, hourlyVars, dailyCards, dayOptions,
                           selectedDay, localStorage>>
    /\ UNCHANGED <<entry, currentUnit, currentSpeedUnit, currentTimeFormat, city, uncaught,
                   currentDayIndex, dayMenuOpen, settingsOpen, searchVars, groupVars, calcVars>>

\* final: the answer to the current-conditions request arrives; on success the forecast
\* request leaves for the city the global names at that moment
CurrentResponse_final(id, outcome) ==
    /\ entry = "final"
    /\ calls[id].pc = "current"
    /\ IF outcome = "ok"
       THEN /\ calls' = [calls EXCEPT ![id].pc = "forecast", ![id].fcCity = city]
            /\ UNCHANGED <<currentVars, loading>>
       ELSE Fail(id, city)
    /\ UNCHANGED <<entry, settingsVars, city, globalForecastData, uncaught, dailyCards,
                   hourlyVars, dayVars, settingsOpen, searchVars, groupVars, calcVars>>

\* final: what the success path writes once the forecast is in
ForecastDone_final(id) ==
    LET l == ForecastList(calls[id].fcCity)
    IN /\ globalForecastData' = ForecastOf(calls[id].fcCity)
       /\ SetCurrentFields(updateCurrentWeather_final(CurrentOf(calls[id].city),
                                                      currentUnit, currentSpeedUnit))
       /\ dailyCards' = updateDailyForecast_final(l, currentUnit, dailyCards)
       /\ hourlyCards' = updateHourlyForecast_final(l, 0, currentUnit, currentTimeFormat,
                                                    hourlyCards)
       /\ hourlyCall' = HourlyCalled(entry, l, 0)
       /\ localStorage' = [localStorage EXCEPT !.lastCity = city]
       /\ selectedDay' = DayLabel(0)
       /\ calls' = [calls EXCEPT ![id].pc = "done"]
       /\ loading' = FALSE

\* final: the answer to the forecast request arrives; its status is not looked at
ForecastResponse_final(id, outcome) ==
    /\ entry = "final"
    /\ calls[id].pc = "forecast"
    /\ CASE outcome = "ok" -> ForecastDone_final(id)
         [] outcome = "status" ->
               \* the error body is stored, updateCurrentWeather runs, then
               \* groupForecastByDay throws on data.list and the catch block runs
               /\ globalForecastData' = ErrorBody
               /\ Fail(id, city)
               /\ UNCHANGED <<dailyCards, hourlyVars, localStorage, selectedDay>>
         [] OTHER ->
               /\ Fail(id, city)
               /\ UNCHANGED <<globalForecastData, dailyCards, hourlyVars, localStorage,
                              selectedDay>>
    /\ UNCHANGED <<entry, currentUnit, currentSpeedUnit, currentTimeFormat, city, uncaught,
                   currentDayIndex, dayOptions, dayMenuOpen, settingsOpen, searchVars,
                   groupVars, calcVars>>

CurrentResponse(id, outcome) ==
    CurrentResponse_main(id, outcome) \/ CurrentResponse_final(id, outcome)
ForecastResponse(id, outcome) ==
    ForecastResponse_main(id, outcome) \/ ForecastResponse_final(id, outcome)

-----------------------------------------------------------------------------
(* Clicks.  A click that is not stopped bubbles to the document listeners,  *)
(* which close every menu the click is outside of.                         *)

\* a search is submitted for cityName; main: fetchWeatherForCity(cityName),
\* final: city = cityName; fetchWeather()
Submit(cityName) ==
    /\ Len(calls) < MaxCalls
    /\ StartFetch(cityName)
    /\ city' = IF entry = "final" THEN cityName ELSE city
    /\ searchDropdown' = HiddenDropdown
    /\ submitted' = TRUE

\* the search button is clicked
SearchClick ==
    /\ IF Trim(inputValue) = ""
       THEN \* alert("Please enter a city name"); the click still reaches the document
            /\ searchDropdown' = HiddenDropdown
            /\ UNCHANGED <<city, calls, loading, userMadeSelection, submitted>>
       ELSE /\ Submit(Trim(inputValue))
            /\ userMadeSelection' = IF entry = "main" THEN TRUE ELSE userMadeSelection
    /\ dayMenuOpen' = FALSE
    /\ settingsOpen' = FALSE
    /\ UNCHANGED <<entry, settingsVars, globalForecastData, uncaught, currentVars,
                   dailyCards, hourlyVars, selectedDay, currentDayIndex, dayOptions,
                   inputValue, searchTimeout, timers, quiet, lookups, groupVars, calcVars>>

\* Enter is pressed in the search box; main clicks the button, final submits itself
EnterKey ==
    /\ IF Trim(inputValue) = ""
       THEN /\ userMadeSelection' = IF entry = "main" THEN TRUE ELSE userMadeSelection
            /\ searchDropdown' = IF entry = "main" THEN HiddenDropdown ELSE searchDropdown
            /\ UNCHANGED <<city, calls, loading, submitted>>
       ELSE /\ Submit(Trim(inputValue))
            /\ userMadeSelection' = IF entry = "main" THEN TRUE ELSE userMadeSelection
    /\ dayMenuOpen' = IF entry = "main" THEN FALSE ELSE dayMenuOpen
    /\ settingsOpen' = IF entry = "main" THEN FALSE ELSE settingsOpen
    /\ UNCHANGED <<entry, settingsVars, globalForecastData, uncaught, currentVars,
                   dailyCards, hourlyVars, selectedDay, currentDayIndex, dayOptions,
                   inputValue, searchTimeout, timers, quiet, lookups, groupVars, calcVars>>

\* the input listener: the pending timer is cancelled and a new one is started
\* (input_keepsTimer: the same without the clearTimeout)
input_keepsTimer(v) ==
    LET h == NewHandle(timers)
    IN /\ inputValue' = v
       /\ userMadeSelection' = IF entry = "main" THEN FALSE ELSE userMadeSelection
       /\ timers' = {[t EXCEPT !.latest = FALSE] : t \in timers}
                      \cup {NewTimer(h, v, Pending(timers, searchTimeout) /\ quiet < DebounceMs)}
       /\ searchTimeout' = h
       /\ quiet' = 0
       /\ submitted' = FALSE
input(v) ==
    LET kept == {[t EXCEPT !.latest = FALSE] : t \in clearTimeout(timers, searchTimeout)}
        h == NewHandle(kept)
    IN /\ inputValue' = v
       /\ userMadeSelection' = IF entry = "main" THEN FALSE ELSE userMadeSelection
       /\ timers' = kept \cup {NewTimer(h, v, Pending(timers, searchTimeout) /\ quiet < DebounceMs)}
       /\ searchTimeout' = h
       /\ quiet' = 0
       /\ submitted' = FALSE

\* the user changes the text of the search box to v
InputEvent(v) ==
    /\ v # inputValue
    /\ input(v)
    /\ UNCHANGED <<entry, settingsVars, fetchVars, currentVars, dailyCards, hourlyVars,
                   dayVars, settingsOpen, searchDropdown, lookups, groupVars, calcVars>>

\* the listener of [data-day-option] number i (0-based); a hidden option cannot be hit
DayOptionClick_main(i) ==
    /\ entry = "main"
    /\ ~dayOptions[i + 1].hidden
    /\ selectedDay' = dayOptions[i + 1].text
    /\ currentDayIndex' = i
    /\ dayOptions' = [o \in DOMAIN dayOptions |-> [dayOptions[o] EXCEPT !.active = (o = i + 1)]]
    /\ IF globalForecastData.kind # "null"
       THEN /\ hourlyCards' = updateHourlyForecast_main(globalForecastData.list, i,
                                                        currentTimeFormat, hourlyCards)
            /\ hourlyCall' = HourlyCalled(entry, globalForecastData.list, i)
       ELSE UNCHANGED hourlyVars
    /\ dayMenuOpen' = FALSE
    /\ UNCHANGED <<entry, settingsVars, fetchVars, currentVars, dailyCards, settingsOpen,
                   searchVars, groupVars, calcVars>>

DayOptionClick_final(i) ==
    /\ entry = "final"
    /\ selectedDay' = dayOptions[i + 1].text
    /\ IF globalForecastData.kind = "forecast"
       THEN /\ hourlyCards' = updateHourlyForecast_final(globalForecastData.list, i,
                                    currentUnit, currentTimeFormat, hourlyCards)
            /\ hourlyCall' = HourlyCalled(entry, globalForecastData.list, i)
            /\ dayMenuOpen' = FALSE
            /\ UNCHANGED uncaught
       ELSE \* data is null or has no list: data.list.forEach throws a TypeError
            /\ uncaught' = TRUE
            /\ UNCHANGED <<hourlyVars, dayMenuOpen>>
    /\ settingsOpen' = FALSE
    /\ searchDropdown' = HiddenDropdown
    /\ UNCHANGED <<entry, settingsVars, city, globalForecastData, calls, loading,
                   currentVars, dailyCards, currentDayIndex, dayOptions, inputValue,
                   userMadeSelection, searchTimeout, timers, quiet, lookups, submitted, groupVars,
                   calcVars>>

DayOptionClick(i) == DayOptionClick_main(i) \/ DayOptionClick_final(i)

\* main: saveSettings() writes the three settings; final: localStorage.setItem(key, value)
saveSettings_keepsStored(ls, unit, windUnit, format) == ls
saveSettings(ls, unit, windUnit, format) ==
    [ls EXCEPT !.tempUnit = unit, !.windUnit = windUnit, !.timeFormat = format]
setItem(ls, key, value) == [ls EXCEPT ![key] = value]
\* the listener of [data-time-option="f"]
TimeOptionClick_main(f) ==
    /\ entry = "main"
    /\ IF f # currentTimeFormat
       THEN /\ currentTimeFormat' = f
            /\ IF globalForecastData.kind # "null"
               THEN /\ hourlyCards' = updateHourlyForecast_main(globalForecastData.list,
                                            currentDayIndex, f, hourlyCards)
                    /\ hourlyCall' = HourlyCalled(entry, globalForecastData.list,
                                                   currentDayIndex)
               ELSE UNCHANGED hourlyVars
            /\ localStorage' = saveSettings(localStorage, currentUnit, currentSpeedUnit, f)
       ELSE UNCHANGED <<currentTimeFormat, hourlyVars, localStorage>>
    /\ settingsOpen' = FALSE
    /\ UNCHANGED <<entry, currentUnit, currentSpeedUnit, fetchVars, currentVars, dailyCards,
                   dayVars, searchVars, groupVars, calcVars>>

TimeOptionClick_final(f) ==
    /\ entry = "final"
    /\ IF f # currentTimeFormat
       THEN /\ currentTimeFormat' = f
            /\ hourlyCards' = convertAllTimes(f, hourlyCards)
            /\ localStorage' = setItem(localStorage, "timeFormat", f)
       ELSE UNCHANGED <<currentTimeFormat, hourlyCards, localStorage>>
    /\ dayMenuOpen' = FALSE
    /\ searchDropdown' = HiddenDropdown
    /\ UNCHANGED <<entry, currentUnit, currentSpeedUnit, fetchVars, currentVars, dailyCards,
                   hourlyCall, selectedDay, currentDayIndex, dayOptions, settingsOpen,
                   inputValue, userMadeSelection, searchTimeout, timers, quiet, lookups, submitted,
                   groupVars, calcVars>>

TimeOptionClick(f) == TimeOptionClick_main(f) \/ TimeOptionClick_final(f)

\* the listener of [data-unit-option="u"]
UnitOptionClick_main(u) ==
    /\ entry = "main"
    /\ IF u # currentUnit
       THEN /\ currentUnit' = u
            \* convertAllTemperatures(u)
            /\ mainTemp' = convertTemp(mainTemp, u)
            /\ feelsLikeTemp' = convertTemp(feelsLikeTemp, u)
            /\ dailyCards' = convertDailyCards(u, dailyCards)
            /\ hourlyCards' = convertHourlyCards(u, hourlyCards)
            /\ localStorage' = saveSettings(localStorage, u, currentSpeedUnit,
                                            currentTimeFormat)
       ELSE UNCHANGED <<currentUnit, mainTemp, feelsLikeTemp, dailyCards, hourlyCards,
                        localStorage>>
    /\ settingsOpen' = FALSE
    /\ UNCHANGED <<entry, currentSpeedUnit, currentTimeFormat, fetchVars, locationName,
                   humidityValue, windSpeed, precipitationValue, hourlyCall, dayVars,
                   searchVars, groupVars, calcVars>>

\* final: the click also reaches the document listener, which closes the day menu and
\* the suggestion list
UnitOptionClick_final(u) ==
    /\ entry = "final"
    /\ IF u # currentUnit
       THEN /\ currentUnit' = u
            /\ mainTemp' = convertTemp(mainTemp, u)
            /\ feelsLikeTemp' = convertTemp(feelsLikeTemp, u)
            /\ dailyCards' = convertDailyCards(u, dailyCards)
            /\ hourlyCards' = convertHourlyCards(u, hourlyCards)
            /\ localStorage' = setItem(localStorage, "tempUnit", u)
       ELSE UNCHANGED <<currentUnit, mainTemp, feelsLikeTemp, dailyCards, hourlyCards,
                        localStorage>>
    /\ dayMenuOpen' = FALSE
    /\ searchDropdown' = HiddenDropdown
    /\ UNCHANGED <<entry, currentSpeedUnit, currentTimeFormat, fetchVars, locationName,
                   humidityValue, windSpeed, precipitationValue, hourlyCall, selectedDay,
                   currentDayIndex, dayOptions, settingsOpen, inputValue,
                   userMadeSelection, searchTimeout, timers, quiet, lookups, submitted, groupVars,
                   calcVars>>

UnitOptionClick(u) == UnitOptionClick_main(u) \/ UnitOptionClick_final(u)

\* the listener of [data-wind-option="u"] (main: data-wind-unit)
WindOptionClick_main(u) ==
    /\ entry = "main"
    /\ IF u # currentSpeedUnit
       THEN /\ currentSpeedUnit' = u
            /\ windSpeed' = convertWind_main(windSpeed, u)
            /\ localStorage' = saveSettings(localStorage, currentUnit, u,
                                            currentTimeFormat)
       ELSE UNCHANGED <<currentSpeedUnit, windSpeed, localStorage>>
    /\ settingsOpen' = FALSE
    /\ UNCHANGED <<entry, currentUnit, currentTimeFormat, fetchVars, locationName, mainTemp,
                   feelsLikeTemp, humidityValue, precipitationValue, dailyCards,
                   hourlyVars, dayVars, searchVars, groupVars, calcVars>>

WindOptionClick_final(u) ==
    /\ entry = "final"
    /\ IF u # currentSpeedUnit
       THEN /\ currentSpeedUnit' = u
            /\ windSpeed' = convertSpeedUnit(windSpeed, u)
            /\ localStorage' = setItem(localStorage, "windUnit", u)
       ELSE UNCHANGED <<currentSpeedUnit, windSpeed, localStorage>>
    /\ dayMenuOpen' = FALSE
    /\ searchDropdown' = HiddenDropdown
    /\ UNCHANGED <<entry, currentUnit, currentTimeFormat, fetchVars, locationName, mainTemp,
                   feelsLikeTemp, humidityValue, precipitationValue, dailyCards,
                   hourlyVars, selectedDay, currentDayIndex, dayOptions, settingsOpen,
                   inputValue, userMadeSelection, searchTimeout, timers, quiet, lookups, submitted,
                   groupVars, calcVars>>

WindOptionClick(u) == WindOptionClick_main(u) \/ WindOptionClick_final(u)

\* the listener of the settings button (both scripts): the event is stopped and the
\* settings menu is toggled
SettingsBtnClick ==
    /\ settingsOpen' = ~settingsOpen
    /\ UNCHANGED <<entry, settingsVars, fetchVars, currentVars, dailyCards, hourlyVars,
                   dayVars, searchVars, groupVars, calcVars>>

\* the listener of the day selector (both scripts): the event is stopped and the day
\* menu is toggled
DaySelectorClick ==
    /\ dayMenuOpen' = ~dayMenuOpen
    /\ UNCHANGED <<entry, settingsVars, fetchVars, currentVars, dailyCards, hourlyVars,
                   selectedDay, currentDayIndex, dayOptions, settingsOpen, searchVars,
                   groupVars, calcVars>>

\* a click on the page outside every menu, toggle and the search box: only the document
\* listeners run
OutsideClick ==
    /\ settingsOpen' = FALSE
    /\ dayMenuOpen' = FALSE
    /\ searchDropdown' = HiddenDropdown
    /\ UNCHANGED <<entry, settingsVars, fetchVars, currentVars, dailyCards, hourlyVars,
                   selectedDay, currentDayIndex, dayOptions, inputValue, userMadeSelection,
                   searchTimeout, timers, quiet, lookups, submitted, groupVars, calcVars>>

-----------------------------------------------------------------------------
(* The debounce timer of the search box *)

TickMs == 100           \* step of the model's clock, in ms
MaxLookups == 2         \* suggestion requests sent before the user stops typing

\* TickMs of time pass; a timer that is due runs before more time passes
Tick ==
    /\ \A t \in timers : t.left > 0
    /\ timers # {} \/ quiet < DebounceMs
    /\ timers' = {[t EXCEPT !.left = IF @ > TickMs THEN @ - TickMs ELSE 0] : t \in timers}
    /\ quiet' = IF quiet + TickMs < DebounceMs THEN quiet + TickMs ELSE DebounceMs
    /\ UNCHANGED <<entry, settingsVars, fetchVars, currentVars, dailyCards, hourlyVars,
                   dayVars, settingsOpen, inputValue, userMadeSelection, searchDropdown,
                   searchTimeout, lookups, submitted, groupVars, calcVars>>

\* the request fetch(url) of a suggestion lookup leaves
SendLookup(t, q) ==
    lookups' = Append(lookups, [query |-> q, box |-> Trim(inputValue), quiet |-> quiet,
                                latest |-> t.latest, restarted |-> t.restarted,
                                answered |-> FALSE])

\* main: the timer's callback runs searchCities(query) up to its await
TimerFire_main(t) ==
    /\ entry = "main"
    /\ t \in timers /\ t.left = 0
    \* clearTimeout(searchTimeout) at the top of searchCities
    /\ timers' = clearTimeout(timers \ {t}, searchTimeout)
    /\ IF IsShort(t.query)
       THEN searchDropdown' = ClearedDropdown /\ UNCHANGED lookups
       ELSE IF userMadeSelection
       THEN UNCHANGED <<searchDropdown, lookups>>
       ELSE SendLookup(t, t.query) /\ UNCHANGED searchDropdown
    /\ UNCHANGED <<entry, settingsVars, fetchVars, currentVars, dailyCards, hourlyVars,
                   dayVars, settingsOpen, inputValue, userMadeSelection, searchTimeout,
                   quiet, submitted, groupVars, calcVars>>

\* final: the timer's callback reads the box and runs fetchCitySuggestions(text) up to
\* its await
TimerFire_final(t) ==
    /\ entry = "final"
    /\ t \in timers /\ t.left = 0
    /\ timers' = timers \ {t}
    /\ IF IsShort(Trim(inputValue))
       THEN searchDropdown' = ClearedDropdown /\ UNCHANGED lookups
       ELSE SendLookup(t, Trim(inputValue)) /\ UNCHANGED searchDropdown
    /\ UNCHANGED <<entry, settingsVars, fetchVars, currentVars, dailyCards, hourlyVars,
                   dayVars, settingsOpen, inputValue, userMadeSelection, searchTimeout,
                   quiet, submitted, groupVars, calcVars>>

TimerFire(t) == TimerFire_main(t) \/ TimerFire_final(t)

-----------------------------------------------------------------------------
(* Specifications *)

SearchTexts == {"", " ", "Cardiff", "London"}
DayChoices == {0, 1, 2}
TimeFormats == {"12", "24"}

\* every fetch issued so far has ended
Idle == \A id \in DOMAIN calls : calls[id].pc \in {"done", "failed"}

\* The weather page used by one visitor who lets a search end before the next one:
\* searches, answers of the weather service, day and time-format selection.
Next ==
    \/ \E v \in SearchTexts : InputEvent(v)
    \/ Idle /\ SearchClick
    \/ Idle /\ EnterKey
    \/ \E id \in DOMAIN calls : \E o \in CurrentOutcomes : CurrentResponse(id, o)
    \/ \E id \in DOMAIN calls : \E o \in ForecastOutcomes : ForecastResponse(id, o)
    \/ \E i \in DayChoices : DayOptionClick(i)
    \/ \E f \in TimeFormats : TimeOptionClick(f)

Spec == Init /\ [][Next]_vars

\* Searches that overlap: a search may be submitted while earlier ones are in flight,
\* and the answers arrive in any order.
NextFetch ==
    \/ \E v \in SearchTexts : InputEvent(v)
    \/ SearchClick
    \/ EnterKey
    \/ \E id \in DOMAIN calls : \E o \in CurrentOutcomes : CurrentResponse(id, o)
    \/ \E id \in DOMAIN calls : \E o \in ForecastOutcomes : ForecastResponse(id, o)

SpecFetch == Init /\ [][NextFetch]_vars

\* The search box over time: typing, the clock, the debounce timer and the start of
\* the suggestion lookups.  The answers of the suggestion service and of the weather
\* service are not part of this specification.
NextSearch ==
    \/ \E v \in InputValues : Len(lookups) < MaxLookups /\ InputEvent(v)
    \/ Tick
    \/ \E t \in timers : TimerFire(t)
    \/ SearchClick
    \/ EnterKey

SpecSearch == Init /\ [][NextSearch]_vars

TempUnits == {"celsius", "fahrenheit"}
WindUnits == {"mph", "kmh"}
\* main's wind listener multiplies the shown number on every change to kmh and keeps
\* it on every change back: the wind unit is changed only while the number shown is at
\* most MaxWind
MaxWind == 60

\* The settings menu: the visitor changes the temperature unit, the wind unit and the
\* time format before, while and after the weather of the start-up city is fetched
\* and shown.
NextSettings ==
    \/ \E u \in TempUnits : UnitOptionClick(u)
    \/ \E u \in WindUnits : windSpeed[2] <= MaxWind /\ WindOptionClick(u)
    \/ \E f \in TimeFormats : TimeOptionClick(f)
    \/ \E id \in DOMAIN calls : \E o \in CurrentOutcomes : CurrentResponse(id, o)
    \/ \E id \in DOMAIN calls : \E o \in ForecastOutcomes : ForecastResponse(id, o)

SpecSettings == Init /\ [][NextSettings]_vars

\* The menus: the visitor opens and closes the settings menu and the day menu, picks
\* options in them and clicks elsewhere, around the start-up fetch.
NextMenus ==
    \/ SettingsBtnClick
    \/ DaySelectorClick
    \/ OutsideClick
    \/ \E i \in DayChoices : DayOptionClick(i)
    \/ \E f \in TimeFormats : TimeOptionClick(f)
    \/ \E id \in DOMAIN calls : \E o \in CurrentOutcomes : CurrentResponse(id, o)
    \/ \E id \in DOMAIN calls : \E o \in ForecastOutcomes : ForecastResponse(id, o)

SpecMenus == Init /\ [][NextMenus]_vars

-----------------------------------------------------------------------------
(* Inputs of the grouping functions *)

Dts == {9, 30}                  \* day 0 09:00, day 1 06:00
Temps == {-25, 164, 209}        \* -2.5, 16.4, 20.9 degrees Celsius
Icons == {"01d", "10d"}
Samples == [dt : Dts, temp : Temps, icon : Icons]

\* the page before any fetch, with an empty list to be filled
InitGroup ==
    /\ InitCommon
    /\ calls = <<>>
    /\ loading = FALSE
    /\ pcG = "input"
    /\ CalcIdle

pageVars == <<entry, settingsVars, fetchVars, currentVars, hourlyVars, dayVars,
              settingsOpen, searchVars>>

\* the data source delivers one more sample
AddSample ==
    /\ pcG = "input"
    /\ Len(list) < MaxLen
    /\ \E s \in Samples : list' = Append(list, s)
    /\ UNCHANGED <<pageVars, calcVars, buckets, pcG, dailyCards>>

\* the list is grouped by day
GroupList ==
    /\ pcG = "input"
    /\ buckets' = dayBuckets(entry, list)
    /\ pcG' = "grouped"
    /\ UNCHANGED <<pageVars, calcVars, list, dailyCards>>

\* the daily cards are rendered from the list
RenderDaily ==
    /\ pcG = "grouped"
    /\ dailyCards' = updateDailyForecast(entry, list, currentUnit, dailyCards)
    /\ pcG' = "rendered"
    /\ UNCHANGED <<pageVars, calcVars, list, buckets>>

NextGroup == AddSample \/ GroupList \/ RenderDaily

SpecGroup == InitGroup /\ [][NextGroup]_vars

-----------------------------------------------------------------------------
(* Ordering of the suggested cities (final) *)

PRIORITY_COUNTRIES ==
    {"United Kingdom", "UK", "England", "Scotland", "Wales", "Northern Ireland",
     "United States", "USA", "Canada", "Australia", "Germany", "France", "Spain", "Italy",
     "Netherlands", "Belgium", "Sweden", "Norway", "Denmark", "Switzerland", "Poland",
     "Portugal", "Ireland"}

\* a city is [country, population]; population is <<>> when the field is absent and
\* <<n>> when it is n.  population || 0:
populationOrZero(c) == IF c.population = <<>> THEN 0 ELSE c.population[1]

\* the comparator handed to sort: negative when a goes first, positive when b does
compare_populationOnly(a, b) == populationOrZero(b) - populationOrZero(a)
compare(a, b) ==
    LET aPriority == a.country \in PRIORITY_COUNTRIES
        bPriority == b.country \in PRIORITY_COUNTRIES
    IN IF aPriority /\ ~bPriority THEN 0 - 1
       ELSE IF ~aPriority /\ bPriority THEN 1
       ELSE populationOrZero(b) - populationOrZero(a)

\* Array.prototype.sort with the comparator: a stable sort, here by insertion of each
\* element behind the elements of the sorted part that do not go after it
RECURSIVE sortLoop(_, _, _)
sortLoop(cities, i, sorted) ==
    IF i > Len(cities) THEN sorted
    ELSE LET x == cities[i]
             k == Cardinality({j \in DOMAIN sorted : compare(sorted[j], x) <= 0})
         IN sortLoop(cities, i + 1,
                     SubSeq(sorted, 1, k) \o <<x>> \o SubSeq(sorted, k + 1, Len(sorted)))
prioritizeCities(cities) == sortLoop(cities, 1, <<>>)

-----------------------------------------------------------------------------
(* The answers of the suggestion service and the suggestion list *)

\* what a lookup can end with: a failed fetch, or the data array of the answer, sorted
\* by falling population; region is "" when the field is absent
LookupOutcomes ==
    {"error", <<>>,
     <<[name |-> "London", country |-> "United Kingdom", countryCode |-> "GB",
        region |-> "England", population |-> <<8961989>>],
       [name |-> "Londrina", country |-> "Brazil", countryCode |-> "BR",
        region |-> "", population |-> <<520238>>],
       [name |-> "London", country |-> "Canada", countryCode |-> "CA",
        region |-> "Ontario", population |-> <<383822>>]>>}

\* main: the text an item puts in the search box
fullLocation(c) ==
    IF c.region # "" THEN c.name \o ", " \o c.region
    ELSE IF c.countryCode # "GB" THEN c.name \o ", " \o c.country
    ELSE c.name

\* main: displayCitySuggestions(formattedCities)
displayCitySuggestions(cities) ==
    IF Len(cities) = 0 THEN ClearedDropdown
    ELSE [shown |-> TRUE,
          items |-> [i \in DOMAIN cities |->
                        [city |-> cities[i].name, text |-> fullLocation(cities[i])]]]

\* final: displayCityDropdown(sortedCities)
displayCityDropdown(cities) ==
    IF Len(cities) = 0 THEN ClearedDropdown
    ELSE [shown |-> TRUE,
          items |-> [i \in DOMAIN cities |->
                        [city |-> cities[i].name, text |-> cities[i].name]]]

\* the answer of lookup number k arrives and the rest of searchCities (main) or of
\* fetchCitySuggestions (final) runs
LookupResponse(k, o) ==
    /\ k \in DOMAIN lookups /\ ~lookups[k].answered
    /\ lookups' = [lookups EXCEPT ![k].answered = TRUE]
    /\ searchDropdown' =
          IF o = "error"
          THEN IF entry = "main" THEN searchDropdown ELSE ClearedDropdown
          ELSE IF entry = "main" THEN displayCitySuggestions(o)
          ELSE displayCityDropdown(prioritizeCities(o))
    /\ UNCHANGED <<entry, settingsVars, fetchVars, currentVars, dailyCards, hourlyVars,
                   dayVars, settingsOpen, inputValue, userMadeSelection, searchTimeout,
                   timers, quiet, submitted, groupVars, calcVars>>

\* item number i of the suggestion list is clicked; the click bubbles to the document
SuggestionClick(i) ==
    /\ searchDropdown.shown /\ i \in DOMAIN searchDropdown.items
    /\ inputValue' = searchDropdown.items[i].text
    /\ userMadeSelection' = IF entry = "main" THEN TRUE ELSE userMadeSelection
    /\ Submit(searchDropdown.items[i].city)
    /\ dayMenuOpen' = FALSE
    /\ settingsOpen' = FALSE
    /\ UNCHANGED <<entry, settingsVars, globalForecastData, uncaught, currentVars,
                   dailyCards, hourlyVars, selectedDay, currentDayIndex, dayOptions,
                   searchTimeout, timers, quiet, lookups, groupVars, calcVars>>

MaxItems == 3           \* items of the suggestion list that are clicked

\* The search box with the answers of the suggestion service: typing, the clock, the
\* debounce timer, the lookups and their answers, and the three ways to submit.
NextSuggest ==
    \/ \E v \in InputValues : Len(lookups) < MaxLookups /\ InputEvent(v)
    \/ Tick
    \/ \E t \in timers : TimerFire(t)
    \/ \E k \in DOMAIN lookups : \E o \in LookupOutcomes : LookupResponse(k, o)
    \/ \E i \in 1..MaxItems : SuggestionClick(i)
    \/ SearchClick
    \/ EnterKey

SpecSuggest == Init /\ [][NextSuggest]_vars

-----------------------------------------------------------------------------
(* Inputs of the conversion and formatting functions *)

MaxDegree == 70         \* whole degrees handed to the temperature conversions
MaxChain == 2           \* conversions applied one after the other
MaxWindRaw == 120       \* raw wind speeds of a response, in tenths of a metre per second
MaxRawTemp == 100       \* raw temperatures of a response, in tenths of a degree Celsius

Degrees == (0 - MaxDegree)..MaxDegree
Hours == 0..23         \* date.getHours()
MaxCities == 3          \* candidate cities handed to prioritizeCities
MaxShownWind == 40      \* whole wind speeds on display
CityItems == [country : {"UK", "Germany", "Japan"}, population : {<<>>, <<0>>, <<900>>}]
CityLists == UNION {[1..n -> CityItems] : n \in 0..MaxCities}

\* the page before any fetch, with one argument chosen
InitCalc ==
    /\ InitCommon
    /\ calls = <<>>
    /\ loading = FALSE
    /\ pcG = "off"
    /\ \/ \E n \in Degrees : calcIn = [kind |-> "degrees", v |-> n]
       \/ \E w \in 0..MaxWindRaw : calcIn = [kind |-> "wind", v |-> w]
       \/ \E t \in (0 - MaxRawTemp)..MaxRawTemp : calcIn = [kind |-> "celsius", v |-> t]
       \/ \E h \in Hours : \E f \in TimeFormats :
               calcIn = [kind |-> "hour", v |-> h, format |-> f]
       \/ \E cities \in CityLists : calcIn = [kind |-> "cities", v |-> cities]
       \/ \E n \in 0..MaxShownWind : \E u \in {"mph", "kmh"} :
               calcIn = [kind |-> "shownWind", v |-> n, unit |-> u]
    /\ calcOut = calcIn.v
    /\ calcFn = <<>>

\* fn has been applied to the running value and has returned out
Applied(fn, out) ==
    /\ calcOut' = out
    /\ calcFn' = Append(calcFn, fn)
    /\ UNCHANGED <<pageVars, dailyCards, groupVars, calcIn>>

\* celsiusToFahrenheit(calcOut) and fahrenheitToCelsius(calcOut), on whole degrees
Apply_celsiusToFahrenheit ==
    /\ calcIn.kind = "degrees"
    /\ Len(calcFn) < MaxChain
    /\ Applied("celsiusToFahrenheit", celsiusToFahrenheit(10 * calcOut))

Apply_fahrenheitToCelsius ==
    /\ calcIn.kind = "degrees"
    /\ Len(calcFn) < MaxChain
    /\ Applied("fahrenheitToCelsius", fahrenheitToCelsius(calcOut))

\* updateCurrentWeather(data) of the script in use, for a response whose wind speed is
\* the argument; the wind text is kept
Apply_updateCurrentWeather ==
    /\ calcIn.kind = "wind"
    /\ calcFn = <<>>
    /\ LET data == [CurrentOf("Cardiff") EXCEPT !.wind = calcIn.v]
       IN Applied("updateCurrentWeather",
                  IF entry = "main"
                  THEN updateCurrentWeather_main(data, currentSpeedUnit).windSpeed
                  ELSE updateCurrentWeather_final(data, currentUnit,
                                                  currentSpeedUnit).windSpeed)

\* the three display updates of the success path, for a response whose temperatures all
\* are the argument; the temperature texts are kept
Apply_updateDisplays ==
    /\ calcIn.kind = "celsius"
    /\ calcFn = <<>>
    /\ LET data == [CurrentOf("Cardiff") EXCEPT !.temp = calcIn.v, !.feels_like = calcIn.v]
           l == <<[dt |-> 9, temp |-> calcIn.v, icon |-> "01d"]>>
           current == IF entry = "main" THEN updateCurrentWeather_main(data, currentSpeedUnit)
                      ELSE updateCurrentWeather_final(data, currentUnit, currentSpeedUnit)
           daily == updateDailyForecast(entry, l, currentUnit, dailyCards)
           hourly == IF entry = "main"
                     THEN updateHourlyForecast_main(l, 0, currentTimeFormat, hourlyCards)
                     ELSE updateHourlyForecast_final(l, 0, currentUnit, currentTimeFormat,
                                                     hourlyCards)
       IN Applied("updateDisplays",
                  [mainTemp |-> current.mainTemp, feelsLikeTemp |-> current.feelsLikeTemp,
                   max |-> daily[1].max, min |-> daily[1].min, hourly |-> hourly[1].temp])

\* formatTime for the hour of the argument, with the time format of the argument selected
Apply_formatTime ==
    /\ calcIn.kind = "hour"
    /\ calcFn = <<>>
    /\ Applied("formatTime", formatTime(calcIn.v, calcIn.format))

Apply_prioritizeCities ==
    /\ calcIn.kind = "cities"
    /\ calcFn = <<>>
    /\ Applied("prioritizeCities", prioritizeCities(calcIn.v))

\* the wind text of the argument, as updateCurrentWeather writes it
windText(e, n, unit) == <<IF e = "final" /\ unit = "kmh" THEN "km/h" ELSE unit, n>>

\* the wind option listener's conversion, run for the other unit and then for the unit
\* the argument was shown in
Apply_windThereAndBack ==
    /\ calcIn.kind = "shownWind"
    /\ calcFn = <<>>
    /\ LET other == IF calcIn.unit = "mph" THEN "kmh" ELSE "mph"
           shown == windText(entry, calcIn.v, calcIn.unit)
       IN Applied("windThereAndBack",
                  IF entry = "main"
                  THEN convertWind_main(convertWind_main(shown, other), calcIn.unit)
                  ELSE convertSpeedUnit(convertSpeedUnit(shown, other), calcIn.unit))

NextCalc ==
    \/ Apply_celsiusToFahrenheit
    \/ Apply_fahrenheitToCelsius
    \/ Apply_updateCurrentWeather
    \/ Apply_updateDisplays
    \/ Apply_formatTime
    \/ Apply_prioritizeCities
    \/ Apply_windThereAndBack

SpecCalc == InitCalc /\ [][NextCalc]_vars

-----------------------------------------------------------------------------
(* Properties of the grouping and of the day summary (SpecGroup) *)

DayOf(s) == s.dt \div 24
BucketDay(j) == DayOf(list[buckets[j][1]])
Occurrences(i) ==
    {<<j, k>> \in (DOMAIN buckets) \X (1..MaxLen + 1) :
        k \in DOMAIN buckets[j] /\ buckets[j][k] = i}
RECURSIVE SumLen(_, _)
SumLen(bs, j) == IF j = 0 THEN 0 ELSE Len(bs[j]) + SumLen(bs, j - 1)

\* the distinct days of a list in the order in which they are first seen
RECURSIVE FirstSeenDays(_, _)
FirstSeenDays(l, i) ==
    IF i = 0 THEN <<>>
    ELSE LET prev == FirstSeenDays(l, i - 1)
         IN IF \E j \in DOMAIN prev : prev[j] = DayOf(l[i]) THEN prev
            ELSE Append(prev, DayOf(l[i]))
IsAscending(s) == \A a, b \in DOMAIN s : a < b => s[a] < s[b]

\* C1: grouping by local calendar day puts every sample of the list in exactly one
\* bucket: the buckets are disjoint, their sizes add up to the length of the list,
\* every bucket holds samples of one day, and the empty list gives no bucket.
C1_GroupingIsPartition ==
    pcG # "input" =>
        /\ \A i \in 1..Len(list) : Cardinality(Occurrences(i)) = 1
        /\ \A j \in DOMAIN buckets : \A k \in DOMAIN buckets[j] : buckets[j][k] \in 1..Len(list)
        /\ SumLen(buckets, Len(buckets)) = Len(list)
        /\ \A j \in DOMAIN buckets :
              /\ buckets[j] # <<>>
              /\ \A k \in DOMAIN buckets[j] : DayOf(list[buckets[j][k]]) = BucketDay(j)
        /\ \A a, b \in DOMAIN buckets : a # b => BucketDay(a) # BucketDay(b)
        /\ (list = <<>> => buckets = <<>>)

C1_Witness ==
    /\ pcG = "grouped"
    /\ Len(list) = 3
    /\ Len(buckets) = 2
    /\ \E j \in DOMAIN buckets : Len(buckets[j]) = 2

\* C2 as stated: for every list, whatever the order of its timestamps, the buckets
\* are in the order in which their date keys are first seen, and the samples of a
\* bucket keep their source order.
C2_FirstSeenOrderAlways ==
    pcG # "input" =>
        /\ Len(buckets) = Len(FirstSeenDays(list, Len(list)))
        /\ \A j \in DOMAIN buckets : BucketDay(j) = FirstSeenDays(list, Len(list))[j]
        /\ \A j \in DOMAIN buckets : IsAscending(buckets[j])

\* C2 amended: the samples of a bucket keep their source order for every list; the
\* buckets are in first-seen order of their date keys in the final script for every
\* list and in main.js whenever the date keys are first seen in ascending order (as
\* with ascending timestamps); for any other list main.js orders the buckets by
\* ascending date.
C2_BucketOrder ==
    pcG # "input" =>
        LET seen == FirstSeenDays(list, Len(list))
        IN /\ Len(buckets) = Len(seen)
           /\ \A j \in DOMAIN buckets : IsAscending(buckets[j])
           /\ (entry = "final" \/ IsAscending(seen)) =>
                 \A j \in DOMAIN buckets : BucketDay(j) = seen[j]
           /\ entry = "main" => IsAscending([j \in DOMAIN buckets |-> BucketDay(j)])

C2_Witness ==
    /\ pcG = "grouped"
    /\ Len(list) = 3
    /\ ~IsAscending(FirstSeenDays(list, Len(list)))
    /\ Len(buckets) = 2
    /\ BucketDay(1) < BucketDay(2)

Count(s, c) == Cardinality({k \in DOMAIN s : s[k] = c})
FirstPos(s, c) == CHOOSE k \in DOMAIN s : s[k] = c /\ \A m \in DOMAIN s : s[m] = c => k <= m
\* the most frequent element of a non-empty sequence, the earliest one among equals
ModeFirst(s) ==
    CHOOSE c \in {s[k] : k \in DOMAIN s} :
        \A d \in {s[k] : k \in DOMAIN s} :
            \/ Count(s, c) > Count(s, d)
            \/ Count(s, c) = Count(s, d) /\ FirstPos(s, c) <= FirstPos(s, d)

ShownDays == {i \in DOMAIN dailyCards : i <= Len(buckets)}

\* C3: the icon of every day shown in the daily forecast is the icon of the condition
\* code that occurs most often among the bucket's samples, the first one in bucket
\* order among the codes with the highest count.
C3_MostCommonIcon ==
    pcG = "rendered" =>
        \A i \in ShownDays :
            dailyCards[i].icon = weatherIconMap[ModeFirst(iconsOf(list, buckets[i]))]

RawMax(i) == MaxOf(tempsOf(list, buckets[i]))
RawMin(i) == MinOf(tempsOf(list, buckets[i]))

-----------------------------------------------------------------------------
(* Properties of the hourly view (Spec) *)

\* the day buckets of the list the hourly view was last updated with, and its day
CallBuckets == dayBuckets(entry, hourlyCall.list)
InRange == hourlyCall.dayIndex + 1 \in DOMAIN CallBuckets
CallBucket == CallBuckets[hourlyCall.dayIndex + 1]
Prefix(s, n) == SubSeq(s, 1, IF Len(s) < n THEN Len(s) ELSE n)

\* the card is visible and reads sample f in the unit and time format of the page
ShowsSample(card, f) ==
    /\ Shown(card)
    /\ card.time = formatTime(f.dt % 24, currentTimeFormat)
    /\ card.icon = weatherIconMap[f.icon]
    /\ card.temp = Deg(IF entry = "final" /\ currentUnit = "fahrenheit"
                       THEN (18 * Round10(f.temp) + 325) \div 10
                       ELSE Round10(f.temp))

\* the card is visible and a script has written a sample to it (a card that still
\* has the page's own markup holds none)
HoldsSample(card) == Shown(card) /\ card.temp # Html

\* C5: an update of the hourly view with a day index that has no bucket selects no
\* sample and shows none: no hourly card is left holding a sample.
C5_OutOfRangeShowsNothing ==
    (hourlyCall.called /\ ~InRange) =>
        /\ hourlyCall.hourlyData = <<>>
        /\ \A i \in DOMAIN hourlyCards : ~HoldsSample(hourlyCards[i])

\* C6: when the bucket of the selected day has k < 8 samples, the first k hourly
\* cards show these samples and no card beyond k holds a sample, be it of a day
\* shown before or of an earlier search.
C6_SlotsBeyondBucketHidden ==
    (hourlyCall.called /\ InRange /\ Len(CallBucket) < NumHourlyCards) =>
        /\ \A i \in 1..Len(CallBucket) :
              ShowsSample(hourlyCards[i], hourlyCall.list[CallBucket[i]])
        /\ \A i \in (Len(CallBucket) + 1)..NumHourlyCards : ~HoldsSample(hourlyCards[i])

\* C7: for a day index that has a bucket of n samples, the update selects the first
\* min(8, n) samples of that bucket in source order, and the hourly view shows these
\* and nothing else.
C7_ShowsFirstEightOfDay ==
    (hourlyCall.called /\ InRange) =>
        LET first == Prefix(CallBucket, 8)
        IN /\ hourlyCall.hourlyData = first
           /\ \A i \in DOMAIN hourlyCards :
                 IF i <= Len(first)
                 THEN ShowsSample(hourlyCards[i], hourlyCall.list[first[i]])
                 ELSE ~HoldsSample(hourlyCards[i])

-----------------------------------------------------------------------------
(* Properties of overlapping searches and of failures (SpecFetch) *)

\* the forecast part of the page is the one of city c
ShowsForecastOf(c) ==
    /\ globalForecastData.kind = "forecast" /\ globalForecastData.city = c
    /\ ShowsSample(hourlyCards[1], ForecastList(c)[1])
    /\ dailyCards[1].name = dayName(ForecastList(c)[1].dt)
    /\ dailyCards[1].icon = weatherIconMap[ForecastList(c)[1].icon]

\* the current conditions are the ones of city c
ShowsCurrentOf(c) ==
    /\ locationName = <<"location", c>>
    /\ humidityValue = <<"%", CurrentOf(c).humidity>>
    /\ precipitationValue = <<"mm", CurrentOf(c).rain>>

\* C8: a search that is submitted leaves the searches in flight as they are, and
\* every search writes what it received whether or not a later search has already
\* ended: main.js writes the current conditions when they arrive and the forecast
\* (cards and stored forecast) when it arrives, the final script writes both when
\* the forecast arrives.
C8_StaleSearchOverwrites ==
    [][\A id \in DOMAIN calls :
          /\ Len(calls') > Len(calls) => calls'[id] = calls[id]
          /\ (calls[id].pc = "forecast" /\ calls'[id].pc = "done") =>
                /\ ShowsForecastOf(calls[id].fcCity)'
                /\ entry = "final" => ShowsCurrentOf(calls[id].city)'
          /\ (entry = "main" /\ calls[id].pc = "current" /\ calls'[id].pc = "forecast") =>
                ShowsCurrentOf(calls[id].city)'
      ]_vars

\* the second search has ended, the first one ended after it, and the page shows
\* the forecast of the first
C8_Witness ==
    /\ Len(calls) = 2
    /\ calls[1].pc = "done" /\ calls[2].pc = "done"
    /\ calls[1].fcCity # calls[2].fcCity
    /\ ShowsForecastOf(calls[1].fcCity)

ErrorShown ==
    /\ locationName \in {<<"could not find", c>> : c \in Cities}
    /\ mainTemp = DashDeg
    /\ feelsLikeTemp = DashDeg
    /\ humidityValue = <<"--%", 0>>
    /\ windSpeed = <<"-- mph", 0>>
    /\ precipitationValue = <<"-- mm", 0>>

\* C10: whenever the answer to the current-conditions request or to the forecast
\* request of a search is a non-success status or a transport failure, the search
\* ends there and the page shows the error state.
C10_FailureShowsErrorState ==
    [][\A id \in DOMAIN calls :
          /\ \A o \in CurrentOutcomes \ {"ok"} :
                CurrentResponse(id, o) => (calls'[id].pc = "failed" /\ ErrorShown')
          /\ \A o \in ForecastOutcomes \ {"ok"} :
                ForecastResponse(id, o) => (calls'[id].pc = "failed" /\ ErrorShown')
      ]_vars

\* a search has failed at its forecast request and the error state is on the page
C10_Witness ==
    /\ \E id \in DOMAIN calls : calls[id].pc = "failed" /\ calls[id].fcCity # ""
    /\ ErrorShown

-----------------------------------------------------------------------------
(* Properties of the debounce timer (SpecSearch) *)

\* C9: every input event cancels the pending timer and starts a new one, so at most
\* one timer is pending, it is the one of the latest input event and it does not
\* run before 300 ms without input have passed; a lookup is sent only by the timer
\* of the latest input event, for the text then in the box.
C9_Debounce ==
    /\ Cardinality(timers) <= 1
    /\ \A t \in timers :
          /\ t.latest
          /\ t.id = searchTimeout
          /\ t.left + quiet >= DebounceMs
    /\ \A k \in DOMAIN lookups :
          /\ lookups[k].latest
          /\ lookups[k].quiet >= DebounceMs
          /\ lookups[k].query = lookups[k].box

\* a burst of input events has ended in one lookup, for its last text
C9_Witness ==
    /\ Len(lookups) = 1
    /\ lookups[1].restarted
    /\ lookups[1].query = "London"
    /\ timers = {}

-----------------------------------------------------------------------------
(* Properties of the page as a whole (Spec) *)

\* C11: no handler leaves an exception uncaught, whatever the user does and however
\* the weather service answers; in particular a day picked for the hourly view
\* before any forecast is loaded, or after a failed search, does not throw.
C11_NoUncaughtException == ~uncaught

-----------------------------------------------------------------------------
(* Properties of the settings (SpecSettings) *)

\* what loadSettings would restore from the storage on a reload
Restored ==
    [tempUnit |-> OrDefault(localStorage.tempUnit, "celsius"),
     windUnit |-> OrDefault(localStorage.windUnit, "mph"),
     timeFormat |-> OrDefault(localStorage.timeFormat, "12")]

\* C12: after every handled change of the temperature unit, the wind unit or the time
\* format the stored value of the changed setting is the new in-memory value, and at
\* every moment a reload would restore exactly the in-memory settings: no change is
\* left unsaved.
C12_SettingsPersisted ==
    /\ [](/\ Restored.tempUnit = currentUnit
          /\ Restored.windUnit = currentSpeedUnit
          /\ Restored.timeFormat = currentTimeFormat)
    /\ [][/\ currentUnit' # currentUnit => localStorage'.tempUnit = currentUnit'
          /\ currentSpeedUnit' # currentSpeedUnit => localStorage'.windUnit = currentSpeedUnit'
          /\ currentTimeFormat' # currentTimeFormat
                => localStorage'.timeFormat = currentTimeFormat']_vars

\* all three settings have been changed away from the defaults of a first visit
C12_Witness ==
    /\ localStorage.lastCity = "Cardiff"
    /\ currentUnit = "fahrenheit" /\ localStorage.tempUnit = "fahrenheit"
    /\ currentSpeedUnit = "kmh" /\ localStorage.windUnit = "kmh"
    /\ currentTimeFormat = "24" /\ localStorage.timeFormat = "24"

-----------------------------------------------------------------------------
(* Properties of the persisted city (SpecFetch) *)

\* C13: the stored last city changes only in the step that completes a search
\* successfully, and then to the city of that search; a step in which a search fails
\* leaves it as it was, however the searches overlap.
C13_LastCityOnlyFromSuccess ==
    [][/\ localStorage'.lastCity # localStorage.lastCity
            => \E id \in DOMAIN calls : /\ calls[id].pc # "done"
                                        /\ calls'[id].pc = "done"
                                        /\ calls'[id].city = localStorage'.lastCity
       /\ (\E id \in DOMAIN calls : calls[id].pc # "failed" /\ calls'[id].pc = "failed")
            => localStorage'.lastCity = localStorage.lastCity]_vars

\* the values of the search box that are empty or whitespace only
BlankInputs == {"", " "}

\* C14: a click on the search button or a press of Enter while the search box is empty
\* or holds only whitespace starts no weather fetch and no suggestion lookup, and
\* leaves the weather shown, the stored forecast and the persisted city as they were.
C14_BlankSubmitDoesNothing ==
    [][(inputValue \in BlankInputs /\ (SearchClick \/ EnterKey))
          => UNCHANGED <<calls, loading, timers, lookups, currentVars, dailyCards,
                         hourlyCards, globalForecastData, city, localStorage>>]_vars

\* main: Enter has been pressed on a whitespace-only box while London's weather is shown
C14_Witness ==
    /\ entry = "main"
    /\ inputValue = " "
    /\ userMadeSelection
    /\ locationName = <<"location", "London">>
    /\ Len(calls) = 1

-----------------------------------------------------------------------------
(* Properties of the conversion and formatting functions (SpecCalc) *)

\* n is num / den rounded to the nearest integer, a half rounded up (den > 0)
IsRoundHalfUp(n, num, den) == den * (2 * n - 1) <= 2 * num /\ 2 * num < den * (2 * n + 1)

\* C15: for every whole number of degrees of the range, celsiusToFahrenheit(c) is
\* c * 9/5 + 32 and fahrenheitToCelsius(f) is (f - 32) * 5/9, each rounded to the
\* nearest integer with a half rounded up; 20 C gives 68 F and 68 F gives 20 C.
C15_ConversionsRoundHalfUp ==
    /\ calcFn = <<"celsiusToFahrenheit">>
          => /\ IsRoundHalfUp(calcOut, 9 * calcIn.v + 160, 5)
             /\ calcIn.v = 20 => calcOut = 68
    /\ calcFn = <<"fahrenheitToCelsius">>
          => /\ IsRoundHalfUp(calcOut, 5 * (calcIn.v - 32), 9)
             /\ calcIn.v = 68 => calcOut = 20

\* celsiusToFahrenheit has been applied to an argument whose exact image, 33.8, is not
\* a whole number
C15_Witness ==
    /\ calcFn = <<"celsiusToFahrenheit">>
    /\ calcIn.v = 1
    /\ calcOut = 34

\* C16: the two conversions are not inverses of each other: some whole Fahrenheit value
\* of the range does not come back from fahrenheitToCelsius followed by
\* celsiusToFahrenheit, neither as a number nor as a temperature text converted to
\* Celsius and back.
C16_RoundTripLossy ==
    calcIn.kind = "degrees" =>
        \E f \in Degrees :
            /\ celsiusToFahrenheit(10 * fahrenheitToCelsius(f)) # f
            /\ convertTemp(convertTemp(Deg(f), "celsius"), "fahrenheit") # Deg(f)

\* 33 F has been converted to Celsius and back, and 34 F came out
C16_Witness ==
    /\ calcFn = <<"fahrenheitToCelsius", "celsiusToFahrenheit">>
    /\ calcIn.v = 33
    /\ calcOut = 34

\* C17: the wind speed shown after a successful fetch is the raw speed of the response,
\* in metres per second, times 2.237 when the wind unit is mph and times 3.6 when it is
\* km/h, rounded to the nearest integer, for every raw speed of the range.
C17_WindFromRawSpeed ==
    (calcFn = <<"updateCurrentWeather">> /\ calcIn.kind = "wind")
        => /\ currentSpeedUnit = "mph" => IsRoundHalfUp(calcOut[2], 2237 * calcIn.v, 10000)
           /\ currentSpeedUnit = "kmh" => IsRoundHalfUp(calcOut[2], 36 * calcIn.v, 100)

\* the Fahrenheit text of a raw Celsius reading of t tenths, rounded once
IsFahrenheitOf(text, t) == text[1] = "deg" /\ IsRoundHalfUp(text[2], 18 * t + 3200, 100)

\* C18: with Fahrenheit selected, the script that renders in the selected unit shows the
\* main temperature, the feels-like temperature, the daily maximum and minimum and the
\* hourly temperature as the raw Celsius reading times 9/5 plus 32, rounded once.
C18_FahrenheitFromRawCelsius ==
    (entry = "final" /\ currentUnit = "fahrenheit" /\ calcFn = <<"updateDisplays">>)
        => /\ IsFahrenheitOf(calcOut.mainTemp, calcIn.v)
           /\ IsFahrenheitOf(calcOut.feelsLikeTemp, calcIn.v)
           /\ IsFahrenheitOf(calcOut.max, calcIn.v)
           /\ IsFahrenheitOf(calcOut.min, calcIn.v)
           /\ IsFahrenheitOf(calcOut.hourly, calcIn.v)

\* the number written by a run of decimal digits, most significant first
RECURSIVE NumberOf(_)
NumberOf(s) ==
    IF s = <<>> THEN 0
    ELSE 10 * NumberOf(SubSeq(s, 1, Len(s) - 1))
            + (CHOOSE d \in 0..9 : Digit[d + 1] = s[Len(s)])

\* C19: for every hour h of 0..23 the label is the hour in two digits followed by ":00"
\* in the 24-hour format, and in the 12-hour format the number h mod 12, with 12 in
\* place of 0 and no leading zero, a space, and AM below noon or PM from noon on;
\* 15 gives "3 PM" and "15:00", 0 gives "12 AM".
C19_TimeLabel ==
    calcFn = <<"formatTime">> =>
        LET h == calcIn.v
            n == Len(calcOut)
        IN /\ calcIn.format = "24"
                => /\ n = 5
                   /\ IsDigit(calcOut[1]) /\ IsDigit(calcOut[2])
                   /\ NumberOf(SubSeq(calcOut, 1, 2)) = h
                   /\ SubSeq(calcOut, 3, 5) = <<":", "0", "0">>
                   /\ h = 15 => calcOut = <<"1", "5", ":", "0", "0">>
           /\ calcIn.format = "12"
                => /\ n = IF h % 12 \in 1..9 THEN 4 ELSE 5
                   /\ \A k \in 1..(n - 3) : IsDigit(calcOut[k])
                   /\ NumberOf(SubSeq(calcOut, 1, n - 3)) = (IF h % 12 = 0 THEN 12 ELSE h % 12)
                   /\ SubSeq(calcOut, n - 2, n) = (IF h < 12 THEN <<" ", "A", "M">>
                                                  ELSE <<" ", "P", "M">>)
                   /\ h = 15 => calcOut = <<"3", " ", "P", "M">>
                   /\ h = 0 => calcOut = <<"1", "2", " ", "A", "M">>

\* formatTime has padded a one-digit hour in the 24-hour format
C19_Witness ==
    /\ calcFn = <<"formatTime">>
    /\ calcIn.v = 7
    /\ calcIn.format = "24"
    /\ calcOut = <<"0", "7", ":", "0", "0">>

\* in the list cities, the item at position i has to come before the item at position j
GoesBefore(cities, i, j) ==
    LET pi == cities[i].country \in PRIORITY_COUNTRIES
        pj == cities[j].country \in PRIORITY_COUNTRIES
        ni == IF cities[i].population = <<>> THEN 0 ELSE cities[i].population[1]
        nj == IF cities[j].population = <<>> THEN 0 ELSE cities[j].population[1]
    IN \/ pi /\ ~pj
       \/ pi = pj /\ ni > nj
       \/ pi = pj /\ ni = nj /\ i < j

\* C20: prioritizeCities returns the cities it was given, every city of a priority
\* country before every other city, cities of equal priority by descending population
\* (an absent population counting as 0), and cities equal in both in their input order.
C20_PrioritizedOrder ==
    calcFn = <<"prioritizeCities">> =>
        LET n == Len(calcIn.v)
        IN /\ Len(calcOut) = n
           /\ \E p \in Permutations(1..n) :
                 /\ \A k \in 1..n : calcOut[k] = calcIn.v[p[k]]
                 /\ \A k \in 1..n : \A m \in 1..n :
                        k < m => GoesBefore(calcIn.v, p[k], p[m])

\* a list whose first city is the most populous but of no priority country, followed by
\* two priority cities equal in population (absent and 0), has been ordered
C20_Witness ==
    /\ calcFn = <<"prioritizeCities">>
    /\ calcIn.v = <<[country |-> "Japan", population |-> <<900>>],
                    [country |-> "UK", population |-> <<>>],
                    [country |-> "Germany", population |-> <<0>>]>>
    /\ calcOut = <<[country |-> "UK", population |-> <<>>],
                   [country |-> "Germany", population |-> <<0>>],
                   [country |-> "Japan", population |-> <<900>>]>>

-----------------------------------------------------------------------------
(* Further properties of overlapping searches (SpecFetch) *)

\* some fetch has been issued and has not ended
InFlight == \E id \in DOMAIN calls : calls[id].pc \in {"current", "forecast"}

\* C22: in the script with a loading overlay, the overlay is visible exactly while some
\* fetchWeather call is in flight, also when searches overlap.
C22_OverlayWhileInFlight == entry = "final" => (loading <=> InFlight)

\* C26: once every search issued has ended, and ended with success, the current
\* conditions, the daily and hourly forecast and the stored forecast on the page are
\* those of one city.
C26_OneCityWhenIdle ==
    (\A id \in DOMAIN calls : calls[id].pc = "done")
        => \E c \in Cities : ShowsCurrentOf(c) /\ ShowsForecastOf(c)

\* C27: a step in which a search fails leaves the stored forecast as it was.
C27_FailureKeepsStoredForecast ==
    [][(\E id \in DOMAIN calls : calls[id].pc # "failed" /\ calls'[id].pc = "failed")
          => globalForecastData' = globalForecastData]_vars

-----------------------------------------------------------------------------
(* Further properties of the conversion functions (SpecCalc) *)

\* C28: changing the wind unit to the other unit and back restores the wind number and
\* the unit label that were on display, whichever unit was shown first.
C28_WindThereAndBack ==
    calcFn = <<"windThereAndBack">> => calcOut = windText(entry, calcIn.v, calcIn.unit)

-----------------------------------------------------------------------------
(* Further properties of the settings (SpecSettings) *)

\* the temperature text, when it holds a number, is the raw Celsius reading of t tenths
\* in the selected unit, to within the one degree that rounding twice can cost
InSelectedUnit(text, t) ==
    LET expected == IF currentUnit = "fahrenheit" THEN celsiusToFahrenheit(t)
                    ELSE Round10(t)
    IN text[1] = "deg" => (text[2] - expected \in {0 - 1, 0, 1})

\* C24: every temperature on display (main, feels-like, daily maximum and minimum,
\* hourly) is expressed in the selected temperature unit, after any unit and
\* time-format changes and also after a start-up with Fahrenheit loaded from storage.
C24_TemperaturesInSelectedUnit ==
    /\ \A c \in Cities :
          locationName = <<"location", c>>
             => /\ InSelectedUnit(mainTemp, CurrentOf(c).temp)
                /\ InSelectedUnit(feelsLikeTemp, CurrentOf(c).feels_like)
    /\ (hourlyCall.called /\ hourlyCall.hourlyData # <<>>)
          => /\ InSelectedUnit(hourlyCards[1].temp,
                               hourlyCall.list[hourlyCall.hourlyData[1]].temp)
             /\ InSelectedUnit(dailyCards[1].max,
                               MaxOf(tempsOf(hourlyCall.list, CallBuckets[1])))
             /\ InSelectedUnit(dailyCards[1].min,
                               MinOf(tempsOf(hourlyCall.list, CallBuckets[1])))

-----------------------------------------------------------------------------
(* Further properties of the page as a whole (Spec) *)

\* C25: in the script that remembers the day index, once the hourly view has been
\* drawn, the remembered index is the index of the bucket on display, the day-selector
\* label is the text of the option of that bucket, and exactly one day option is
\* marked active.
C25_DaySelectionConsistent ==
    (entry = "main" /\ hourlyCall.called) =>
        /\ currentDayIndex = hourlyCall.dayIndex
        /\ selectedDay = dayOptions[hourlyCall.dayIndex + 1].text
        /\ Cardinality({o \in DOMAIN dayOptions : dayOptions[o].active}) = 1

-----------------------------------------------------------------------------
(* Properties of the menus (SpecMenus) *)

\* C23: a click outside a menu and outside its toggle closes that menu: a click on the
\* settings button closes the day menu, a click on the day selector closes the
\* settings menu, and so the two menus are never both open after a click.
C23_OutsideClickCloses ==
    [][/\ SettingsBtnClick => ~dayMenuOpen'
       /\ DaySelectorClick => ~settingsOpen'
       /\ ~(settingsOpen' /\ dayMenuOpen')]_vars

-----------------------------------------------------------------------------
(* Properties of the suggestion list (SpecSuggest) *)

\* C21: after a search is submitted (suggestion click, search button or Enter) the
\* suggestion list stays hidden until the next input event, also when a debounce
\* timer was pending or a lookup was in flight at the moment of the submit.
C21_HiddenAfterSubmit == submitted => ~searchDropdown.shown

====
